---- MODULE Spec2Model ----
(***************************************************************************)
(* Model of the Gmail handler (gmail_handler.py): the emails table         *)
(* (EmailsTable.select / EmailsTable.insert) and the handler               *)
(* (GmailHandler.connect, call_gmail_api, _handle_list_messages_response,  *)
(* _get_messages, _parse_message, _parse_parts).                           *)
(*                                                                         *)
(* Python values are modelled as follows.  A dict is a function whose      *)
(* DOMAIN is the set of its keys, so that `k in d` is k \in DOMAIN d.  A   *)
(* value that may be None is wrapped: None is <<>> and a present value x   *)
(* is <<x>>.  A call that raises yields a record whose field exc names the *)
(* exception ("" when nothing was raised).                                 *)
(***************************************************************************)
EXTENDS Integers, Sequences, FiniteSets, TLC

----------------------------------------------------------------------------
(* Program constants *)

\* GmailHandler.__init__: self.max_page_size = 500
max_page_size == 500

\* GmailHandler.__init__: self.max_batch_size = 100
max_batch_size == 100

\* call_gmail_api: limit_exec_time = time.time() + 60
exec_time_limit == 60

(* Bounds of the model *)

\* LIMIT values tried are 0..MaxLimit, max_page_size and max_page_size + 1
MaxLimit == 3

\* the provider answers a list call with 0..MaxPage message references
MaxPage == 2

\* a provider call takes MinTick seconds or exec_time_limit + 1 seconds
MinTick == 20

\* an insert carries 1..MaxRows value rows
MaxRows == 2

\* reference lists of 0..MaxRefs references are partitioned in SpecBatch
MaxRefs == 250

\* part trees: lists of at most MaxParts parts, nested at most MaxDepth deep
MaxParts == 2

MaxDepth == 2

\* connections built by one handler
MaxConn == 2

----------------------------------------------------------------------------
(* Python helpers *)

None == <<>>

Some(x) == <<x>>

\* d.get(k, default)
Get(d, k, default) == IF k \in DOMAIN d THEN d[k] ELSE default

Min(a, b) == IF a < b THEN a ELSE b

\* s[:n] for a list s and any integer n (negative n counts from the end)
SliceTo(s, n) ==
    IF n >= 0 THEN SubSeq(s, 1, Min(n, Len(s)))
    ELSE IF Len(s) + n <= 0 THEN <<>> ELSE SubSeq(s, 1, Len(s) + n)

\* str.lower() on the names that occur in the modelled queries and messages
Lower(name) ==
    CASE name = "From"       -> "from"
      [] name = "TO"         -> "to"
      [] name = "Subject"    -> "subject"
      [] name = "Date"       -> "date"
      [] name = "Message-ID" -> "message-id"
      [] name = "X-Mailer"   -> "x-mailer"
      [] name = "ID"         -> "id"
      [] name = "Body"       -> "body"
      [] OTHER               -> name

----------------------------------------------------------------------------
(* Message Decoder: GmailHandler._parse_parts *)

\* urlsafe_b64decode(data).decode('utf-8') on the encoded contents that occur
\* in the modelled messages: "SGVsbG8=" is base64url of "Hello", "aGk=" of
\* "hi", "" of "", and "_w==" of the single byte 0xFF, which is not UTF-8.
B64Utf8Decode(data) ==
    CASE data = ""         -> [exc |-> "", text |-> ""]
      [] data = "SGVsbG8=" -> [exc |-> "", text |-> "Hello"]
      [] data = "aGk="     -> [exc |-> "", text |-> "hi"]
      [] data = "_w=="     -> [exc |-> "UnicodeDecodeError", text |-> ""]
      [] OTHER             -> [exc |-> "binascii.Error", text |-> ""]

\* the attachment entry appended for a part
AttachmentEntry(part) ==
    [filename |-> part["filename"], mimeType |-> part["mimeType"],
     attachmentId |-> part["body"]["attachmentId"]]

\* part.get('filename') and part.get('body') and part.get('body').get('attachmentId')
IsAttachment(part) ==
    /\ Get(part, "filename", "") # ""
    /\ DOMAIN Get(part, "body", <<>>) # {}
    /\ Get(part["body"], "attachmentId", "") # ""

RECURSIVE parse_parts(_, _)
RECURSIVE parse_parts_loop(_, _, _, _)

\* the for loop of _parse_parts from index i on, with the body accumulated so
\* far; attachments is the caller's list, appended to in place
parse_parts_loop(parts, i, body, attachments) ==
    IF i > Len(parts) THEN [exc |-> "", ret |-> Some(body), attachments |-> attachments]
    ELSE LET part == parts[i] IN
      IF part["mimeType"] = "text/plain" THEN
        LET dec == B64Utf8Decode(Get(Get(part, "body", <<>>), "data", "")) IN
          IF dec.exc # "" THEN [exc |-> dec.exc, ret |-> None, attachments |-> attachments]
          ELSE parse_parts_loop(parts, i + 1, body \o dec.text, attachments)
      ELSE IF part["mimeType"] = "multipart/alternative" \/ "parts" \in DOMAIN part THEN
        IF "parts" \notin DOMAIN part
        THEN [exc |-> "KeyError", ret |-> None, attachments |-> attachments]
        ELSE LET r == parse_parts(Some(part["parts"]), attachments) IN
          IF r.exc # "" THEN r
          ELSE IF r.ret = None
          THEN [exc |-> "TypeError", ret |-> None, attachments |-> r.attachments]
          ELSE parse_parts_loop(parts, i + 1, body \o r.ret[1], r.attachments)
      ELSE IF IsAttachment(part) THEN
        parse_parts_loop(parts, i + 1, body, Append(attachments, AttachmentEntry(part)))
      ELSE parse_parts_loop(parts, i + 1, body, attachments)

\* _parse_parts(parts, attachments): parts is None or Some(list); the result
\* carries the returned value (None or Some(string)) and the attachments list
parse_parts(parts, attachments) ==
    IF parts = None \/ parts[1] = <<>>
    THEN [exc |-> "", ret |-> None, attachments |-> attachments]
    ELSE parse_parts_loop(parts[1], 1, "", attachments)

----------------------------------------------------------------------------
(* Row Projector: GmailHandler._parse_message *)

\* json.dumps(attachments): the serialised text, kept symbolic
JsonDumps(x) == [json |-> x]

RECURSIVE parse_headers(_, _, _)
\* the header loop of _parse_message from index i on
parse_headers(headers, i, row) ==
    IF i > Len(headers) THEN row
    ELSE LET key == Lower(headers[i]["name"])
             value == headers[i]["value"] IN
      IF key \in {"to", "subject", "date"}
      THEN parse_headers(headers, i + 1, (key :> value) @@ row)
      ELSE IF key = "from"
      THEN parse_headers(headers, i + 1, ("sender" :> value) @@ row)
      ELSE IF key = "message-id"
      THEN parse_headers(headers, i + 1, ("message_id" :> value) @@ row)
      ELSE parse_headers(headers, i + 1, row)

\* _parse_message(data, message, exception): exception is None or Some(e).
\* Yields the exception the callback raises (if any) and the new data list.
parse_message(data, message, exception) ==
    IF exception # None THEN [exc |-> "", data |-> data]
    ELSE IF ~({"payload", "id", "threadId", "historyId"} \subseteq DOMAIN message)
    THEN [exc |-> "KeyError", data |-> data]
    ELSE
      LET payload == message["payload"]
          headers == Get(payload, "headers", <<>>)
          parts == IF "parts" \in DOMAIN payload THEN Some(payload["parts"]) ELSE None
          row0 == [id |-> message["id"],
                   thread_id |-> message["threadId"],
                   label_ids |-> Get(message, "labelIds", <<>>),
                   snippet |-> Get(message, "snippet", ""),
                   history_id |-> message["historyId"],
                   size_estimate |-> Get(message, "sizeEstimate", 0)]
          row1 == parse_headers(headers, 1, row0)
          p == parse_parts(parts, <<>>)
      IN IF p.exc # "" THEN [exc |-> p.exc, data |-> data]
         ELSE [exc |-> "",
               data |-> Append(data, ("body" :> p.ret) @@
                                     ("attachments" :> JsonDumps(p.attachments)) @@ row1)]

----------------------------------------------------------------------------
(* Batch Fetch Engine: GmailHandler._handle_list_messages_response *)

RECURSIVE full_batches(_, _, _)
\* the for loop over range(total_pages): the slices
\* messages[page * max_batch_size:(page + 1) * max_batch_size]
full_batches(messages, page, total_pages) ==
    IF page >= total_pages THEN <<>>
    ELSE <<SubSeq(messages, page * max_batch_size + 1,
                  Min((page + 1) * max_batch_size, Len(messages)))>>
         \o full_batches(messages, page + 1, total_pages)

\* rest_batch with the remainder forgotten
rest_batch_dropped(messages, total_pages) == <<>>

\* the remaining messages, if any: messages[total_pages * max_batch_size:]
rest_batch(messages, total_pages) ==
    IF Len(messages) % max_batch_size > 0
    THEN <<SubSeq(messages, total_pages * max_batch_size + 1, Len(messages))>>
    ELSE <<>>

\* the lists handed to _get_messages, in call order
handle_list_messages_response(messages) ==
    LET total_pages == Len(messages) \div max_batch_size
    IN full_batches(messages, 0, total_pages) \o rest_batch(messages, total_pages)

RECURSIVE run_callbacks(_, _, _)
\* batch_req.execute() of _get_messages: the callback runs once per request,
\* in request order, with the item's response or its exception; an exception
\* raised by the callback leaves execute() and ends the loop
run_callbacks(data, items, i) ==
    IF i > Len(items) THEN [exc |-> "", data |-> data]
    ELSE LET r == parse_message(data, items[i].response, items[i].exception) IN
      IF r.exc # "" THEN r ELSE run_callbacks(r.data, items, i + 1)

----------------------------------------------------------------------------
(* Query/Mutation Translator: EmailsTable.select, EmailsTable.insert *)

\* arg2.split(',') on the label lists that occur in the modelled queries
Split(text) ==
    CASE text = "a,b" -> <<"a", "b">>
      [] OTHER        -> <<text>>

RECURSIVE select_conditions(_, _, _)
\* the loop over the comparison conditions of the WHERE clause in select,
\* from index i on: the exception raised, or the parameters built
select_conditions(conditions, i, p) ==
    IF i > Len(conditions) THEN [exc |-> "", params |-> p]
    ELSE LET op == conditions[i][1]
             arg1 == conditions[i][2]
             arg2 == conditions[i][3] IN
      IF op = "or" THEN [exc |-> "OR is not supported", params |-> p]
      ELSE IF arg1 \in {"query", "label_ids", "include_spam_trash"} THEN
        IF op = "=" THEN
          IF arg1 = "query"
          THEN select_conditions(conditions, i + 1, ("q" :> arg2) @@ p)
          ELSE IF arg1 = "label_ids"
          THEN select_conditions(conditions, i + 1, ("labelIds" :> Split(arg2)) @@ p)
          ELSE select_conditions(conditions, i + 1, ("includeSpamTrash" :> arg2) @@ p)
        ELSE [exc |-> "Unknown op", params |-> p]
      ELSE [exc |-> "Unknown clause", params |-> p]

\* select, lines 56-79: the conditions, then the LIMIT clause
select_params(query) ==
    LET c == select_conditions(query.where, 1, <<>>) IN
      IF c.exc # "" THEN c
      ELSE IF query.limit # None
      THEN [exc |-> "", params |-> ("maxResults" :> query.limit[1]) @@ c.params]
      ELSE c

\* EmailsTable.get_columns
get_columns ==
    <<"id", "message_id", "thread_id", "label_ids", "sender", "to", "date",
      "subject", "snippet", "history_id", "size_estimate", "body", "attachments">>

RECURSIVE select_targets(_, _, _)
\* the loop over query.targets in select (lines 87-95), from index i on
select_targets(targets, i, columns) ==
    IF i > Len(targets) THEN [exc |-> "", columns |-> columns]
    ELSE IF targets[i].type = "Star" THEN [exc |-> "", columns |-> get_columns]
    ELSE IF targets[i].type = "Identifier"
    THEN select_targets(targets, i + 1, Append(columns, targets[i].name))
    ELSE [exc |-> "Unknown query target", columns |-> columns]

RECURSIVE rename_columns(_, _, _)
\* the loop of result.rename(columns={target.parts[-1]: str(target.alias)})
\* over query.targets (lines 111-113), from index i on
rename_columns(targets, i, labels) ==
    IF i > Len(targets) THEN labels
    ELSE IF targets[i].alias # None
    THEN rename_columns(targets, i + 1,
             [c \in 1..Len(labels) |->
                 IF labels[c] = targets[i].name THEN targets[i].alias[1] ELSE labels[c]])
    ELSE rename_columns(targets, i + 1, labels)

\* the column labels of the frame select returns (lines 97-115): lower-cased,
\* and, when the fetch returned rows, renamed by the targets' aliases
select_columns(targets, columns, result) ==
    LET lowered == [i \in 1..Len(columns) |-> Lower(columns[i])] IN
      IF Len(result) = 0 THEN lowered
      ELSE rename_columns(targets, 1, lowered)

\* dict(zip(columns, row))
Zip(columns, row) ==
    [c \in {columns[i] : i \in 1..Min(Len(columns), Len(row))} |->
        row[CHOOSE i \in 1..Min(Len(columns), Len(row)) :
              /\ columns[i] = c
              /\ \A j \in (i + 1)..Min(Len(columns), Len(row)) : columns[j] # c]]

supported_columns == {"message_id", "thread_id", "to_email", "subject", "body"}

\* urlsafe_b64encode(message.as_bytes()).decode(): the encoded text, kept symbolic
B64UrlEncode(message) == [b64url |-> message]

\* insert_message with the threading headers set whenever message_id is there
insert_message_replies_always(p) ==
    LET base == [To |-> p["to_email"],
                 Subject |-> Get(p, "subject", ""),
                 content |-> Get(p, "body", "")]
        mime == IF "message_id" \in DOMAIN p
                THEN ("In-Reply-To" :> p["message_id"]) @@
                     ("References" :> p["message_id"]) @@ base
                ELSE base
        message == [raw |-> B64UrlEncode(mime)]
    IN IF "thread_id" \in DOMAIN p
       THEN ("threadId" :> p["thread_id"]) @@ message
       ELSE message

\* insert, lines 170-190: the EmailMessage built for a row and the send payload
insert_message(p) ==
    LET base == [To |-> p["to_email"],
                 Subject |-> Get(p, "subject", ""),
                 content |-> Get(p, "body", "")]
        mime == IF "thread_id" \in DOMAIN p /\ "message_id" \in DOMAIN p
                THEN ("In-Reply-To" :> p["message_id"]) @@
                     ("References" :> p["message_id"]) @@ base
                ELSE base
        message == [raw |-> B64UrlEncode(mime)]
    IN IF "thread_id" \in DOMAIN p
       THEN ("threadId" :> p["thread_id"]) @@ message
       ELSE message

\* insert, lines 165-192 for one row: the exception raised, or the parameters
\* of the send_message call
insert_row(columns, row) ==
    LET p == Zip(columns, row) IN
      IF "to_email" \notin DOMAIN p
      THEN [exc |-> "\"to_email\" parameter is required to send an email", params |-> <<>>]
      ELSE [exc |-> "", params |-> [body |-> insert_message(p)]]

----------------------------------------------------------------------------
(* The provider: what a list call, a batch of get calls and a send call may
   answer *)

\* how long a provider call may take, in seconds
Ticks == {MinTick, exec_time_limit + 1}

Limits == (0..MaxLimit) \cup {max_page_size, max_page_size + 1}

TextPart(d) == [mimeType |-> "text/plain", body |-> [data |-> d]]

HtmlPart == [mimeType |-> "text/html", body |-> [data |-> "PGI-aGk8L2I-"]]

PdfPart ==
    [mimeType |-> "application/pdf", filename |-> "a.pdf",
     body |-> [attachmentId |-> "att1", size |-> 7]]

\* the shapes of message payloads the provider delivers
OkShapes == {"noparts", "nested"}

BadShapes == {"badutf8", "emptyalt"}

PartsOf(shape) ==
    CASE shape = "nested" ->
           <<[mimeType |-> "multipart/alternative",
              parts |-> <<TextPart("aGk="), HtmlPart>>],
             PdfPart>>
      [] shape = "badutf8" -> <<TextPart("_w==")>>
      [] shape = "emptyalt" -> <<[mimeType |-> "multipart/alternative", parts |-> <<>>]>>

HeadersOf(shape) ==
    IF shape = "noparts" THEN <<>>
    ELSE <<[name |-> "From", value |-> "alice@example.com"],
           [name |-> "Subject", value |-> "hello"],
           [name |-> "X-Mailer", value |-> "m"]>>

\* the full message users.messages.get delivers for reference id
MessageOf(id, shape) ==
    LET payload == IF shape = "noparts"
                   THEN [mimeType |-> "text/plain", body |-> [data |-> "aGk="]]
                   ELSE [mimeType |-> "multipart/mixed", headers |-> HeadersOf(shape),
                         parts |-> PartsOf(shape)]
    IN [id |-> id, threadId |-> id, historyId |-> "h1", snippet |-> "hi",
        payload |-> payload]

\* what each request of a batch completes with: "exception" or a payload shape
ItemKinds == {"exception"} \cup OkShapes \cup BadShapes

\* the positions of a batch of k requests that complete specially
Patterns(k) == {{}, {1}, {k}, {i \in 1..k : i % 2 = 1}, 1..k} \cap SUBSET (1..k)

BatchOutcomes(k) ==
    {[i \in 1..k |-> IF i \in P THEN s ELSE b] :
        P \in Patterns(k), s \in ItemKinds, b \in OkShapes}

\* the (response, exception) pairs the batch hands to the callback
BatchItems(chunk, outcome) ==
    [i \in 1..Len(chunk) |->
        IF outcome[i] = "exception"
        THEN [response |-> None, exception |-> Some("HttpError")]
        ELSE [response |-> MessageOf(chunk[i]["id"], outcome[i]), exception |-> None]]

\* the references of the page-th page, of k messages
Refs(page, k) == [i \in 1..k |-> [id |-> <<page, i>>, threadId |-> <<page, i>>]]

\* the answers to a list call for the page-th page: with or without a
\* 'messages' list, with or without the token of the page after it
ListResponses(page) ==
    LET pages == {[resultSizeEstimate |-> 0]} \cup
                 {[resultSizeEstimate |-> k, messages |-> Refs(page, k)] : k \in 0..MaxPage}
    IN pages \cup {("nextPageToken" :> page + 1) @@ envelope : envelope \in pages}

SendResponse == [id |-> "sent1", threadId |-> "T1", labelIds |-> <<"SENT">>]

\* the queries handed to select
Star == [type |-> "Star", alias |-> None]

Identifier(name, alias) == [type |-> "Identifier", name |-> name, alias |-> alias]

Function == [type |-> "Function", alias |-> None]

GoodWhere ==
    <<<<"=", "query", "from:alice">>, <<"=", "label_ids", "a,b">>,
      <<"=", "include_spam_trash", "true">>>>

BadWheres ==
    {<<<<"or", "query", "x">>>>,
     <<<<"=", "query", "x">>, <<">", "label_ids", "a">>>>,
     <<<<"=", "sender", "alice">>>>}

TargetLists ==
    {<<Star>>,
     <<Identifier("ID", None), Identifier("subject", Some("title")),
       Identifier("cc", None)>>,
     <<Identifier("Body", Some("text"))>>,
     <<Identifier("id", None), Function>>}

SelectQueries ==
    {[kind |-> "select", where |-> w, limit |-> Some(1), targets |-> t] :
        w \in BadWheres, t \in TargetLists}
    \cup
    {[kind |-> "select", where |-> w, limit |-> l, targets |-> t] :
        w \in {<<>>, GoodWhere}, l \in {None, Some(1)}, t \in TargetLists}

\* the queries handed to insert
ColumnLists ==
    {<<"to_email", "subject", "body">>,
     <<"thread_id", "message_id", "to_email", "body">>,
     <<"to_email", "thread_id">>,
     <<"message_id", "to_email">>,
     <<"subject", "body">>,
     <<"to_email", "cc">>}

CellOf(column, r) ==
    CASE column = "to_email"   -> "bob@example.com"
      [] column = "subject"    -> "subject " \o ToString(r)
      [] column = "body"       -> "body " \o ToString(r)
      [] column = "thread_id"  -> "T1"
      [] column = "message_id" -> "M" \o ToString(r)
      [] OTHER                 -> "x"

InsertQueries ==
    {[kind |-> "insert", columns |-> cols,
      values |-> [r \in 1..n |-> [c \in 1..Len(cols) |-> CellOf(cols[c], r)]]] :
        cols \in ColumnLists, n \in 1..MaxRows}

\* direct invocations of call_gmail_api
CallQueries ==
    {[kind |-> "call", method_name |-> "list_messages", params |-> <<>>]}
    \cup
    {[kind |-> "call", method_name |-> "list_messages", params |-> [maxResults |-> n]] :
        n \in Limits}
    \cup
    {[kind |-> "call", method_name |-> "get_profile", params |-> <<>>]}

NoQuery == [kind |-> "none"]

----------------------------------------------------------------------------
(* State *)

VARIABLES
    service,          \* GmailHandler.service: 0 is None, n > 0 the n-th connection built
    is_connected,     \* GmailHandler.is_connected
    pc,               \* where the running operation stands
    query,            \* the query of the running operation
    rowi,             \* insert: index of the row being sent
    method_name,      \* call_gmail_api: method_name
    params,           \* call_gmail_api: params
    count_results,    \* call_gmail_api: count_results
    data,             \* call_gmail_api: data
    limit_exec_time,  \* call_gmail_api: limit_exec_time
    resp,             \* call_gmail_api: resp
    batches,          \* _handle_list_messages_response: the _get_messages calls left
    now,              \* time.time(), in seconds since the operation began
    calls,            \* the provider calls issued by the running operation
    resps,            \* the answers received to its list calls
    resolved,         \* every row appended to data by the running fetch, in order
    items,            \* what the last batch completed with, until the page is done
    outcome           \* how the operation ended

handler == <<service, is_connected>>

locals == <<method_name, params, count_results, data, limit_exec_time, resp, batches>>

history == <<calls, resps, resolved, items>>

vars == <<service, is_connected, pc, query, rowi, method_name, params, count_results,
          data, limit_exec_time, resp, batches, now, calls, resps, resolved, items,
          outcome>>

NoOutcome == [kind |-> "none"]

Init ==
    /\ service = 0
    /\ is_connected = FALSE
    /\ pc = "idle"
    /\ query = NoQuery
    /\ rowi = 0
    /\ method_name = ""
    /\ params = <<>>
    /\ count_results = None
    /\ data = <<>>
    /\ limit_exec_time = 0
    /\ resp = <<>>
    /\ batches = <<>>
    /\ now = 0
    /\ calls = <<>>
    /\ resps = <<>>
    /\ resolved = <<>>
    /\ items = <<>>
    /\ outcome = NoOutcome

----------------------------------------------------------------------------
(* Pagination Controller: GmailHandler.connect and GmailHandler.call_gmail_api *)

\* connect building a connection whether or not one is held
connect_always_new(created) ==
    IF created
    THEN [exc |-> "", service |-> service + 1, is_connected |-> TRUE]
    ELSE IF is_connected /\ service # 0
    THEN [exc |-> "", service |-> service, is_connected |-> is_connected]
    ELSE [exc |-> "Error connecting to Gmail API", service |-> service,
          is_connected |-> is_connected]

\* GmailHandler.connect; created tells whether create_connection succeeds
connect(created) ==
    IF is_connected /\ service # 0
    THEN [exc |-> "", service |-> service, is_connected |-> is_connected]
    ELSE IF created
    THEN [exc |-> "", service |-> service + 1, is_connected |-> TRUE]
    ELSE [exc |-> "Error connecting to Gmail API", service |-> service,
          is_connected |-> is_connected]

\* whether create_connection may succeed: no more than MaxConn connections
\* are followed
Creations == IF service < MaxConn THEN BOOLEAN ELSE {FALSE}

\* what service.users().getProfile(userId='me').execute() may do: answer with
\* the profile, answer without an address, raise HttpError, or raise another
\* error of the transport (the token was revoked)
ProfileOutcomes == {"profile", "noaddress", "HttpError", "RefreshError"}

\* GmailHandler.check_connection: the exception that leaves it or the
\* response it returns, and the handler's fields afterwards
check_connection(created, profile) ==
    LET c == connect(created) IN
      IF c.exc # ""
      THEN [exc |-> c.exc, response |-> None, service |-> c.service,
            is_connected |-> c.is_connected]
      ELSE IF profile = "RefreshError"
      THEN [exc |-> "RefreshError", response |-> None, service |-> c.service,
            is_connected |-> c.is_connected]
      ELSE LET response ==
                 IF profile = "HttpError"
                 THEN [success |-> FALSE,
                       error_message |-> Some("Error connecting to Gmail api: HttpError.")]
                 ELSE [success |-> profile = "profile", error_message |-> None]
           IN [exc |-> "", response |-> Some(response), service |-> c.service,
               is_connected |-> IF ~response.success /\ c.is_connected
                                THEN FALSE ELSE c.is_connected]

\* the operation ends with an exception
Raise(exc) ==
    /\ pc' = "done"
    /\ outcome' = [kind |-> "raised", exc |-> exc]

\* call_gmail_api, lines 399-415: up to the first pass of the while loop
call_gmail_api_enter(method, p, created) ==
    LET c == connect(created) IN
      /\ service' = c.service
      /\ is_connected' = c.is_connected
      /\ IF c.exc # ""
         THEN /\ Raise(c.exc)
              /\ UNCHANGED <<method_name, params, count_results, data, limit_exec_time>>
         ELSE IF method \notin {"list_messages", "send_message"}
         THEN /\ Raise("Unknown method_name")
              /\ UNCHANGED <<method_name, params, count_results, data, limit_exec_time>>
         ELSE /\ method_name' = method
              /\ count_results' = IF "maxResults" \in DOMAIN p
                                  THEN Some(p["maxResults"]) ELSE None
              /\ params' = ("userId" :> "me") @@ p
              /\ data' = <<>>
              /\ limit_exec_time' = now + exec_time_limit
              /\ pc' = "loop"
              /\ UNCHANGED outcome

\* page_size without the cap at max_page_size
page_size_uncapped(left) == left

\* lines 430-433: the page size asked for when left results are missing
page_size(left) == IF left > max_page_size THEN max_page_size ELSE left

\* timed_out with the deadline test left out
timed_out_never(t, limit) == FALSE

\* line 418: the deadline test at the top of the loop
timed_out(t, limit) == t > limit

\* line 444: whether the loop goes round again after a response
next_page(count, response) == count # None /\ "nextPageToken" \in DOMAIN response

\* with_page_token storing the token under the key of the response
with_page_token_misnamed(p, response) ==
    ("nextPageToken" :> response["nextPageToken"]) @@ p

\* line 445: the parameters of the next list call
with_page_token(p, response) == ("pageToken" :> response["nextPageToken"]) @@ p

\* line 427: the rows kept when more came than were asked for
truncate(rows, left) == SliceTo(rows, left)

\* the clock after a provider call that took tick seconds; it is not
\* followed further than one second past the deadline
Elapse(tick) == Min(now + tick, limit_exec_time + 1)

\* Issue sending the request twice
Issue_twice(call) ==
    calls' = calls \o <<call @@ [at |-> now], call @@ [at |-> now]>>

\* a call of the provider is issued
Issue(call) == calls' = Append(calls, call @@ [at |-> now])

\* select(query) is called
Select ==
    /\ pc = "idle"
    /\ \E q \in SelectQueries, created \in Creations :
         LET t == select_params(q) IN
           /\ query' = q
           /\ IF t.exc # ""
              THEN /\ Raise(t.exc)
                   /\ UNCHANGED <<handler, method_name, params, count_results, data,
                                  limit_exec_time>>
              ELSE call_gmail_api_enter("list_messages", t.params, created)
    /\ UNCHANGED <<rowi, resp, batches, now, history>>

\* insert(query) is called: the column check and the first row
Insert ==
    /\ pc = "idle"
    /\ \E q \in InsertQueries, created \in Creations :
         LET columns == q.columns
             r == insert_row(columns, q.values[1]) IN
           /\ query' = q
           /\ rowi' = 1
           /\ IF ~({columns[i] : i \in 1..Len(columns)} \subseteq supported_columns)
              THEN /\ Raise("Unsupported columns for create email")
                   /\ UNCHANGED <<handler, method_name, params, count_results, data,
                                  limit_exec_time>>
              ELSE IF r.exc # ""
              THEN /\ Raise(r.exc)
                   /\ UNCHANGED <<handler, method_name, params, count_results, data,
                                  limit_exec_time>>
              ELSE call_gmail_api_enter("send_message", r.params, created)
    /\ UNCHANGED <<resp, batches, now, history>>

\* call_gmail_api(method_name, params) is called directly
CallGmailApi ==
    /\ pc = "idle"
    /\ \E q \in CallQueries, created \in Creations :
         /\ query' = q
         /\ call_gmail_api_enter(q.method_name, q.params, created)
    /\ UNCHANGED <<rowi, resp, batches, now, history>>

\* connect() is called
Connect ==
    /\ pc = "idle"
    /\ \E created \in Creations :
         LET c == connect(created) IN
           /\ service' = c.service
           /\ is_connected' = c.is_connected
           /\ IF c.exc # "" THEN Raise(c.exc)
              ELSE /\ pc' = "done"
                   /\ outcome' = [kind |-> "returned", service |-> c.service]
    /\ query' = [kind |-> "connect"]
    /\ UNCHANGED <<rowi, locals, now, history>>

\* check_connection() is called
CheckConnection ==
    /\ pc = "idle"
    /\ \E created \in Creations, profile \in ProfileOutcomes :
         LET r == check_connection(created, profile) IN
           /\ service' = r.service
           /\ is_connected' = r.is_connected
           /\ IF r.exc # "" THEN Raise(r.exc)
              ELSE /\ pc' = "done"
                   /\ outcome' = [kind |-> "returned", response |-> r.response[1]]
    /\ query' = [kind |-> "check_connection"]
    /\ UNCHANGED <<rowi, locals, now, history>>

\* lines 417-437: one pass from the top of the while loop to the provider call
LoopHead ==
    /\ pc = "loop"
    /\ IF timed_out(now, limit_exec_time)
       THEN /\ Raise("Handler request timeout error")
            /\ UNCHANGED <<params, data, calls>>
       ELSE IF count_results # None
       THEN LET left == count_results[1] - Len(data) IN
              IF left = 0
              THEN /\ pc' = "return"
                   /\ UNCHANGED <<params, data, calls, outcome>>
              ELSE IF left < 0
              THEN /\ data' = truncate(data, left)
                   /\ pc' = "return"
                   /\ UNCHANGED <<params, calls, outcome>>
              ELSE /\ params' = ("maxResults" :> page_size(left)) @@ params
                   /\ Issue([method |-> method_name, params |-> params'])
                   /\ pc' = "call"
                   /\ UNCHANGED <<data, outcome>>
       ELSE /\ Issue([method |-> method_name, params |-> params])
            /\ pc' = "call"
            /\ UNCHANGED <<params, data, outcome>>
    /\ UNCHANGED <<handler, query, rowi, method_name, count_results, limit_exec_time,
                   resp, batches, now, resps, resolved, items>>

\* line 437: users.messages.list answers, or fails.  The provider is followed
\* for the calls issued up to the deadline: line 418 lets no other through.
ListReturns ==
    /\ pc = "call"
    /\ method_name = "list_messages"
    /\ now <= limit_exec_time
    /\ \E tick \in Ticks :
         /\ now' = Elapse(tick)
         /\ \/ \E r \in ListResponses(Len(resps) + 1) :
                 /\ resp' = r
                 /\ resps' = Append(resps, r)
                 /\ pc' = "dispatch"
                 /\ UNCHANGED outcome
            \/ /\ Raise("HttpError")
               /\ UNCHANGED <<resp, resps>>
    /\ UNCHANGED <<handler, query, rowi, method_name, params, count_results, data,
                   limit_exec_time, batches, calls, resolved, items>>

\* line 437: users.messages.send answers, or fails
SendReturns ==
    /\ pc = "call"
    /\ method_name = "send_message"
    /\ now <= limit_exec_time
    /\ \E tick \in Ticks :
         /\ now' = Elapse(tick)
         /\ \/ /\ resp' = SendResponse
               /\ pc' = "dispatch"
               /\ UNCHANGED outcome
            \/ /\ Raise("HttpError")
               /\ UNCHANGED resp
    /\ UNCHANGED <<handler, query, rowi, method_name, params, count_results, data,
                   limit_exec_time, batches, calls, resps, resolved, items>>

\* lines 439-442: the response is handed to the batch engine, or kept as a row
Dispatch ==
    /\ pc = "dispatch"
    /\ IF "messages" \in DOMAIN resp
       THEN /\ batches' = handle_list_messages_response(resp["messages"])
            /\ pc' = IF batches' = <<>> THEN "paging" ELSE "batches"
            /\ UNCHANGED <<data, resolved>>
       ELSE /\ data' = Append(data, resp)
            /\ resolved' = Append(resolved, resp)
            /\ pc' = "paging"
            /\ UNCHANGED batches
    /\ UNCHANGED <<handler, query, rowi, method_name, params, count_results,
                   limit_exec_time, resp, now, calls, resps, items, outcome>>

\* _get_messages, lines 375-380: the batch of get requests is sent
GetMessages ==
    /\ pc = "batches"
    /\ Issue([method |-> "get", ids |-> [i \in 1..Len(Head(batches)) |-> Head(batches)[i]["id"]]])
    /\ pc' = "batch"
    /\ items' = <<>>
    /\ UNCHANGED <<handler, query, rowi, locals, now, resps, resolved, outcome>>

\* batch_req.execute() completes: every request of the batch with a message
\* or an exception (one of outcomes), the callback run on each; or the batch
\* call itself fails
BatchAnswers(outcomes) ==
    /\ pc = "batch"
    /\ \E tick \in Ticks :
         /\ now' = Elapse(tick)
         /\ \/ \E o \in outcomes :
                 LET r == run_callbacks(data, BatchItems(Head(batches), o), 1) IN
                   /\ items' = BatchItems(Head(batches), o)
                   /\ data' = r.data
                   /\ resolved' = resolved \o SubSeq(r.data, Len(data) + 1, Len(r.data))
                   /\ IF r.exc # ""
                      THEN /\ Raise(r.exc)
                           /\ UNCHANGED batches
                      ELSE /\ batches' = Tail(batches)
                           /\ pc' = IF batches' = <<>> THEN "paging" ELSE "batches"
                           /\ UNCHANGED outcome
            \/ /\ Raise("HttpError")
               /\ UNCHANGED <<data, resolved, batches, items>>
    /\ UNCHANGED <<handler, query, rowi, method_name, params, count_results,
                   limit_exec_time, resp, calls, resps>>

BatchReturns == BatchAnswers(BatchOutcomes(Len(Head(batches))))

\* lines 444-447: the loop goes round again with the page token, or ends
Paging ==
    /\ pc = "paging"
    /\ IF next_page(count_results, resp)
       THEN /\ params' = with_page_token(params, resp)
            /\ pc' = "loop"
       ELSE /\ pc' = "return"
            /\ UNCHANGED params
    /\ items' = <<>>
    /\ UNCHANGED <<handler, query, rowi, method_name, count_results, data,
                   limit_exec_time, resp, batches, now, calls, resps, resolved, outcome>>

\* lines 449-451: call_gmail_api returns the frame of data to its caller, which
\* goes on: select with lines 86-115, insert with the next row, lines 164-192
Return ==
    /\ pc = "return"
    /\ \/ /\ query.kind = "call"
          /\ pc' = "done"
          /\ outcome' = [kind |-> "returned", rows |-> data]
          /\ UNCHANGED <<handler, rowi, method_name, params, count_results, data,
                         limit_exec_time>>
       \/ /\ query.kind = "select"
          /\ LET t == select_targets(query.targets, 1, <<>>) IN
               IF t.exc # "" THEN Raise(t.exc)
               ELSE /\ pc' = "done"
                    /\ outcome' = [kind |-> "returned", rows |-> data,
                                   columns |-> select_columns(query.targets, t.columns, data)]
          /\ UNCHANGED <<handler, rowi, method_name, params, count_results, data,
                         limit_exec_time>>
       \/ /\ query.kind = "insert"
          /\ IF rowi >= Len(query.values)
             THEN /\ pc' = "done"
                  /\ outcome' = [kind |-> "returned"]
                  /\ UNCHANGED <<handler, rowi, method_name, params, count_results, data,
                                 limit_exec_time>>
             ELSE LET r == insert_row(query.columns, query.values[rowi + 1]) IN
                    /\ rowi' = rowi + 1
                    /\ IF r.exc # ""
                       THEN /\ Raise(r.exc)
                            /\ UNCHANGED <<handler, method_name, params, count_results,
                                           data, limit_exec_time>>
                       ELSE \E created \in Creations :
                              call_gmail_api_enter("send_message", r.params, created)
    /\ UNCHANGED <<query, resp, batches, now, history>>

\* the operation is over and the handler waits for the next one
Finish ==
    /\ pc = "done"
    /\ pc' = "idle"
    /\ query' = NoQuery
    /\ rowi' = 0
    /\ method_name' = ""
    /\ params' = <<>>
    /\ count_results' = None
    /\ data' = <<>>
    /\ limit_exec_time' = 0
    /\ resp' = <<>>
    /\ batches' = <<>>
    /\ now' = 0
    /\ calls' = <<>>
    /\ resps' = <<>>
    /\ resolved' = <<>>
    /\ items' = <<>>
    /\ outcome' = NoOutcome
    /\ UNCHANGED handler

Next ==
    \/ Select
    \/ Insert
    \/ CallGmailApi
    \/ Connect
    \/ CheckConnection
    \/ LoopHead
    \/ ListReturns
    \/ SendReturns
    \/ Dispatch
    \/ GetMessages
    \/ BatchReturns
    \/ Paging
    \/ Return
    \/ Finish

Spec == Init /\ [][Next]_vars

\* the steps of a running operation: the interpreter runs on, and every
\* provider call answers or fails
Step ==
    \/ LoopHead
    \/ ListReturns
    \/ SendReturns
    \/ Dispatch
    \/ GetMessages
    \/ BatchReturns
    \/ Paging
    \/ Return

SpecFair == Spec /\ WF_vars(Step)

----------------------------------------------------------------------------
(* _handle_list_messages_response on reference lists of every length up to
   MaxRefs: the fetch stands at line 439 with a page of n references *)

InitBatch ==
    \E n \in 0..MaxRefs :
      LET page == [resultSizeEstimate |-> n, messages |-> Refs(1, n)] IN
        /\ service = 1
        /\ is_connected = TRUE
        /\ pc = "dispatch"
        /\ query = [kind |-> "call", method_name |-> "list_messages", params |-> <<>>]
        /\ rowi = 0
        /\ method_name = "list_messages"
        /\ params = [userId |-> "me"]
        /\ count_results = None
        /\ data = <<>>
        /\ limit_exec_time = exec_time_limit
        /\ resp = page
        /\ batches = <<>>
        /\ now = MinTick
        /\ calls = <<[method |-> "list_messages", params |-> [userId |-> "me"], at |-> 0]>>
        /\ resps = <<page>>
        /\ resolved = <<>>
        /\ items = <<>>
        /\ outcome = NoOutcome

\* every request of the batch completes with a message
BatchDelivers == BatchAnswers({[i \in 1..Len(Head(batches)) |-> "noparts"]})

NextBatch ==
    \/ Dispatch
    \/ GetMessages
    \/ BatchDelivers

SpecBatch == InitBatch /\ [][NextBatch]_vars

----------------------------------------------------------------------------
(* Properties *)

TimeoutError == "Handler request timeout error"

\* the list calls of the running operation, in the order issued
ListCalls == SelectSeq(calls, LAMBDA c : c.method = "list_messages")

\* the batches of get calls of the running operation, in the order issued
GetCalls == SelectSeq(calls, LAMBDA c : c.method = "get")

\* call_gmail_api('list_messages') stands at its return statement
ListFetchReturns == pc = "return" /\ method_name = "list_messages"

\* C1: a list fetch without maxResults goes on as long as the last response
\* carried a nextPageToken: it returns only after a response without a token,
\* and then with the rows of all pages
C1_PagesUntilNoToken ==
    (ListFetchReturns /\ count_results = None) =>
        /\ "nextPageToken" \notin DOMAIN resp
        /\ data = resolved

\* C2: a list fetch with maxResults = N returns at most N rows, and they are
\* the first min(N, rows resolved) rows in the order they arrived
C2_AtMostLimitInOrder ==
    (ListFetchReturns /\ count_results # None) =>
        /\ Len(data) <= count_results[1]
        /\ data = SubSeq(resolved, 1, Min(count_results[1], Len(resolved)))

\* C3: with a result limit N, a list call in flight carries
\* maxResults = min(N - rows accumulated, 500), a value in 1..500; it is only
\* issued while fewer than N rows are accumulated, and never when N = 0
C3_RequestSize ==
    (method_name = "list_messages" /\ count_results # None) =>
        /\ pc = "call" =>
             LET asked == calls[Len(calls)].params["maxResults"] IN
               /\ asked = Min(count_results[1] - Len(data), max_page_size)
               /\ asked \in 1..max_page_size
               /\ Len(data) < count_results[1]
        /\ \A i \in 1..Len(ListCalls) :
             ListCalls[i].params["maxResults"] \in 1..max_page_size
        /\ count_results[1] = 0 => calls = <<>>

\* C3 witness: with N = 501 the first call asked for 500 and, two rows later,
\* the second call asks for 499
C3_Witness ==
    /\ pc = "call"
    /\ method_name = "list_messages"
    /\ count_results = Some(max_page_size + 1)
    /\ Len(data) = 2
    /\ Len(ListCalls) = 2
    /\ ListCalls[1].params["maxResults"] = max_page_size
    /\ ListCalls[2].params["maxResults"] = max_page_size - 1

\* C4: without a result limit every list call carries maxResults = 500
C4_UnlimitedAsksMaxPageSize ==
    (method_name = "list_messages" /\ count_results = None) =>
        \A i \in 1..Len(ListCalls) :
            /\ "maxResults" \in DOMAIN ListCalls[i].params
            /\ ListCalls[i].params["maxResults"] = max_page_size

\* C5: the first list call of a fetch carries no pageToken, every later one
\* carries the nextPageToken of the response just before it, and no token is
\* used twice
C5_TokenEcho ==
    /\ ListCalls # <<>> => "pageToken" \notin DOMAIN ListCalls[1].params
    /\ \A i \in 2..Len(ListCalls) :
         /\ "nextPageToken" \in DOMAIN resps[i - 1]
         /\ "pageToken" \in DOMAIN ListCalls[i].params
         /\ ListCalls[i].params["pageToken"] = resps[i - 1]["nextPageToken"]
    /\ \A i, j \in 2..Len(ListCalls) :
         i < j => ListCalls[i].params["pageToken"] # ListCalls[j].params["pageToken"]

\* C5 witness: a third list call is in flight with the token of the second
\* response
C5_Witness ==
    /\ pc = "call"
    /\ Len(ListCalls) = 3
    /\ Len(resps) = 2
    /\ ListCalls[3].params["pageToken"] = resps[2]["nextPageToken"]
    /\ ListCalls[2].params["pageToken"] = resps[1]["nextPageToken"]

CallRaised ==
    /\ pc = "done"
    /\ outcome.kind = "raised"
    /\ outcome.exc \in {"HttpError", "TypeError", "UnicodeDecodeError", "KeyError",
                        "binascii.Error"}

\* C7: every fetch eventually ends, by reaching its return statement or by the
\* timeout error, whatever the provider answers, as long as every provider
\* call returns and takes some time
C7_FetchEnds ==
    (pc = "loop") ~>
        \/ pc = "return"
        \/ pc = "done" /\ outcome = [kind |-> "raised", exc |-> TimeoutError]
        \/ CallRaised

\* C7 witness: the provider handed out a token with every page, every item of
\* every batch failed, and the fetch ended with the timeout error
C7_Witness ==
    /\ pc = "done"
    /\ outcome = [kind |-> "raised", exc |-> TimeoutError]
    /\ Len(resps) >= 2
    /\ \A i \in 1..Len(resps) : "nextPageToken" \in DOMAIN resps[i]
    /\ GetCalls # <<>>
    /\ resolved = <<>>

\* C8: when a batch has completed, with some items failed and the others
\* fetched, nothing is raised and the rows appended are exactly those of the
\* fetched items, in order
C8_BatchPartialFailure ==
    items # <<>> =>
        LET fetched == SelectSeq(items, LAMBDA it : it.exception = None) IN
          /\ ~(pc = "done" /\ outcome.kind = "raised")
          /\ Len(resolved) >= Len(fetched)
          /\ \A i \in 1..Len(fetched) :
               resolved[Len(resolved) - Len(fetched) + i]["id"] = fetched[i].response["id"]

RECURSIVE Flatten(_)
Flatten(seqs) == IF seqs = <<>> THEN <<>> ELSE Head(seqs) \o Flatten(Tail(seqs))

\* the ids of the references of the page being handled
PageIds == [i \in 1..Len(resp["messages"]) |-> resp["messages"][i]["id"]]

\* C9: the batches submitted for a page of n references hold 1..100
\* references each and, concatenated in submission order, are a prefix of the
\* page; when the page is done they are ceil(n / 100) batches that
\* concatenate to the whole page
C9_Partition ==
    LET sent == [i \in 1..Len(GetCalls) |-> GetCalls[i].ids]
        n == Len(resp["messages"])
    IN /\ \A i \in 1..Len(sent) : Len(sent[i]) \in 1..max_batch_size
       /\ Flatten(sent) = SubSeq(PageIds, 1, Len(Flatten(sent)))
       /\ pc = "paging" =>
            /\ Flatten(sent) = PageIds
            /\ Len(sent) = (n + max_batch_size - 1) \div max_batch_size

\* C9 witness: a page of 201 references is done after three batches
C9_Witness ==
    /\ pc = "paging"
    /\ Len(resp["messages"]) = 2 * max_batch_size + 1
    /\ Len(GetCalls) = 3
    /\ Len(data) = 2 * max_batch_size + 1

TranslationErrors ==
    {"OR is not supported", "Unknown op", "Unknown clause", "Unknown query target",
     "Unsupported columns for create email",
     "\"to_email\" parameter is required to send an email"}

\* C10: when a select or an insert ends with a query-translation error, no
\* provider call (list, get or send) has been issued for it
C10_TranslationErrorsBeforeCalls ==
    (pc = "done" /\ outcome.kind = "raised" /\ outcome.exc \in TranslationErrors) =>
        calls = <<>>

----------------------------------------------------------------------------
(* Properties of insert *)

\* the running operation is an insert that returned
InsertReturned == pc = "done" /\ query.kind = "insert" /\ outcome.kind = "returned"

\* C11: the provider calls of an insert are send_message calls only, the i-th
\* of them carrying the message of the i-th row and issued once, never ahead
\* of the row being sent; an insert that returns has issued exactly one per row
C11_OneSendPerRow ==
    query.kind = "insert" =>
        /\ Len(calls) <= rowi
        /\ \A i \in 1..Len(calls) :
              /\ calls[i].method = "send_message"
              /\ calls[i].params =
                    ("userId" :> "me") @@ insert_row(query.columns, query.values[i]).params
        /\ InsertReturned => Len(calls) = Len(query.values)

C11_Witness == InsertReturned /\ Len(query.values) >= 2 /\ Len(calls) >= 2

\* C12: the message sent for a row has In-Reply-To and References, both equal
\* to message_id, exactly when the row has thread_id and message_id; the send
\* payload has threadId, equal to thread_id, exactly when the row has thread_id
C12_ThreadingHeaders ==
    query.kind = "insert" =>
        \A i \in 1..Len(calls) :
            LET p == Zip(query.columns, query.values[i])
                body == calls[i].params["body"]
                mime == body["raw"].b64url
                reply == "thread_id" \in DOMAIN p /\ "message_id" \in DOMAIN p
            IN /\ "In-Reply-To" \in DOMAIN mime <=> reply
               /\ "References" \in DOMAIN mime <=> reply
               /\ reply => /\ mime["In-Reply-To"] = p["message_id"]
                           /\ mime["References"] = p["message_id"]
               /\ "threadId" \in DOMAIN body <=> "thread_id" \in DOMAIN p
               /\ "thread_id" \in DOMAIN p => body["threadId"] = p["thread_id"]

\* sends of a reply, of a row with thread_id only, and of one with message_id only
C12_Witness ==
    /\ InsertReturned
    /\ \E i \in 1..Len(calls) :
          "In-Reply-To" \in DOMAIN calls[i].params["body"]["raw"].b64url

C12_WitnessNoReply ==
    /\ InsertReturned
    /\ "message_id" \in {query.columns[c] : c \in 1..Len(query.columns)}
    /\ "In-Reply-To" \notin DOMAIN calls[1].params["body"]["raw"].b64url

----------------------------------------------------------------------------
(* _parse_parts and _parse_message on their own: the callback of a get
   request stands before one message, or the decoder before one part list *)

\* a text file attached to the message: its content is fetched by
\* attachmentId, the part carries no inline data
TextAttachment ==
    [mimeType |-> "text/plain", filename |-> "notes.txt",
     body |-> [attachmentId |-> "att2", size |-> 5]]

\* a multipart part of the given mime type with the given children
Multipart(mimeType, children) == [mimeType |-> mimeType, parts |-> children]

\* a forwarded message attached as a file, its own parts listed below it
AttachedMessage(children) ==
    [mimeType |-> "message/rfc822", filename |-> "fwd.eml",
     body |-> [attachmentId |-> "att3", size |-> 9], parts |-> children]

LeafParts ==
    {TextPart("aGk="), TextPart("SGVsbG8="), HtmlPart, PdfPart, TextAttachment,
     [mimeType |-> "multipart/alternative"]}

\* the sequences of at most MaxParts elements of S
ListsOf(S) == UNION {[1..n -> S] : n \in 0..MaxParts}

RECURSIVE PartLists(_)
\* the part lists nested at most depth deep, validly encoded
PartLists(depth) ==
    IF depth <= 1 THEN ListsOf(LeafParts)
    ELSE ListsOf(LeafParts \cup
                 {Multipart(m, l) : m \in {"multipart/alternative", "multipart/mixed"},
                                    l \in PartLists(depth - 1)} \cup
                 {AttachedMessage(l) : l \in PartLists(depth - 1)})

\* the inputs of _parse_parts: payload.get("parts") of a message
PartsInputs == {None} \cup {Some(l) : l \in PartLists(MaxDepth)}

HeaderLists ==
    {<<>>,
     <<[name |-> "From", value |-> "alice@example.com"],
       [name |-> "TO", value |-> "bob@example.com"],
       [name |-> "Subject", value |-> "hello"],
       [name |-> "Date", value |-> "Sun, 1 Nov 2026 09:00:00 +0000"],
       [name |-> "Message-ID", value |-> "<m1@example.com>"],
       [name |-> "X-Mailer", value |-> "m"]>>,
     <<[name |-> "From", value |-> "alice@example.com"],
       [name |-> "X-Mailer", value |-> "m"]>>}

\* the messages handed to the callback of a get request
Messages ==
    {[id |-> "m1", threadId |-> "t1", historyId |-> "h1", snippet |-> "hi",
      labelIds |-> <<"INBOX">>, sizeEstimate |-> 10,
      payload |-> [mimeType |-> "multipart/mixed", headers |-> h, parts |-> l]] :
        h \in HeaderLists, l \in PartLists(1)}
    \cup
    {[id |-> "m1", threadId |-> "t1", historyId |-> "h1",
      payload |-> [mimeType |-> "text/plain", headers |-> h,
                   body |-> [data |-> "aGk="]]] : h \in HeaderLists}

InitDecode ==
    /\ service = 1
    /\ is_connected = TRUE
    /\ pc = "decode"
    /\ query \in {[kind |-> "parse_parts", parts |-> p] : p \in PartsInputs} \cup
                 {[kind |-> "parse_message", message |-> m, exception |-> None] :
                     m \in Messages} \cup
                 {[kind |-> "parse_message", message |-> None,
                   exception |-> Some("HttpError")]}
    /\ rowi = 0
    /\ method_name = "list_messages"
    /\ params = [userId |-> "me"]
    /\ count_results = None
    /\ data = <<>>
    /\ limit_exec_time = exec_time_limit
    /\ resp = <<>>
    /\ batches = <<>>
    /\ now = 0
    /\ calls = <<>>
    /\ resps = <<>>
    /\ resolved = <<>>
    /\ items = <<>>
    /\ outcome = NoOutcome

\* _parse_parts(parts, []) runs
ParseParts ==
    /\ pc = "decode"
    /\ query.kind = "parse_parts"
    /\ LET r == parse_parts(query.parts, <<>>) IN
         IF r.exc # "" THEN Raise(r.exc)
         ELSE /\ pc' = "done"
              /\ outcome' = [kind |-> "returned", body |-> r.ret,
                             attachments |-> r.attachments]
    /\ UNCHANGED <<handler, query, rowi, locals, now, history>>

\* _parse_message(data, message, exception) runs
ParseMessage ==
    /\ pc = "decode"
    /\ query.kind = "parse_message"
    /\ LET elem == IF query.exception = None THEN Some(query.message) ELSE None
           r == parse_message(data, IF elem = None THEN <<>> ELSE elem[1],
                              query.exception) IN
         /\ data' = r.data
         /\ IF r.exc # "" THEN Raise(r.exc)
            ELSE /\ pc' = "done"
                 /\ outcome' = [kind |-> "returned"]
    /\ UNCHANGED <<handler, query, rowi, method_name, params, count_results,
                   limit_exec_time, resp, batches, now, history>>

NextDecode ==
    \/ ParseParts
    \/ ParseMessage

SpecDecode == InitDecode /\ [][NextDecode]_vars

----------------------------------------------------------------------------
(* Properties of the decoder and the projector *)

RECURSIVE AllParts(_)
\* every part of a part list, depth first, children in listed order
AllParts(parts) ==
    IF parts = <<>> THEN <<>>
    ELSE <<Head(parts)>>
         \o (IF "parts" \in DOMAIN Head(parts) THEN AllParts(Head(parts)["parts"]) ELSE <<>>)
         \o AllParts(Tail(parts))

RECURSIVE PlainText(_)
\* the decoded contents of the text/plain parts of a sequence of parts, joined
PlainText(all) ==
    IF all = <<>> THEN ""
    ELSE (IF Head(all)["mimeType"] = "text/plain"
          THEN B64Utf8Decode(Get(Get(Head(all), "body", <<>>), "data", "")).text
          ELSE "")
         \o PlainText(Tail(all))

\* how often e occurs in seq
Count(seq, e) == Cardinality({i \in 1..Len(seq) : seq[i] = e})

\* _parse_parts has run on a part list
ParsedParts == pc = "done" /\ query.kind = "parse_parts"

\* C13: when _parse_parts returns, every part of the tree with a filename, a
\* body and an attachment id has exactly one entry in the attachments list,
\* and the list holds nothing else
C13_AttachmentsRecorded ==
    (ParsedParts /\ outcome.kind = "returned" /\ query.parts # None) =>
        LET files == SelectSeq(AllParts(query.parts[1]), IsAttachment)
            entries == [i \in 1..Len(files) |-> AttachmentEntry(files[i])]
        IN /\ Len(outcome.attachments) = Len(files)
           /\ \A i \in 1..Len(files) :
                 Count(outcome.attachments, entries[i]) = Count(entries, entries[i])

\* C14: _parse_parts never raises and returns a string; for an absent or
\* empty part list the empty string
C14_NeverRaisesStringBody ==
    ParsedParts =>
        /\ outcome.kind = "returned"
        /\ outcome.body # None
        /\ query.parts \in {None, Some(<<>>)} => outcome.body = Some("")

\* C15: the body _parse_parts returns is the decoded contents of all the
\* text/plain parts of the tree, joined depth first in listed order
C15_BodyIsPlainTextInOrder ==
    ParsedParts =>
        /\ outcome.kind = "returned"
        /\ outcome.body =
              Some(PlainText(IF query.parts = None THEN <<>> ELSE AllParts(query.parts[1])))

\* the value of the last header named key, whatever the case; "" without one
HeaderValue(headers, key) ==
    LET named == {i \in 1..Len(headers) : Lower(headers[i]["name"]) = key} IN
      IF named = {} THEN ""
      ELSE headers[CHOOSE i \in named : \A j \in named : j <= i]["value"]

\* C16: the row _parse_message appends for a fetched message has exactly the
\* thirteen attributes of get_columns, and sender, to, date, subject and
\* message_id hold the value of the matching header, "" when there is none
C16_FullRow ==
    (pc = "done" /\ query.kind = "parse_message" /\ query.exception = None
        /\ outcome.kind = "returned") =>
        /\ Len(data) = 1
        /\ DOMAIN data[1] = {get_columns[i] : i \in 1..Len(get_columns)}
        /\ \A a \in {<<"sender", "from">>, <<"to", "to">>, <<"date", "date">>,
                      <<"subject", "subject">>, <<"message_id", "message-id">>} :
              data[1][a[1]] = HeaderValue(Get(query.message["payload"], "headers", <<>>), a[2])

----------------------------------------------------------------------------
(* Properties of select *)

\* the column labels a select of these targets is to return: the thirteen
\* columns for *, else one per target, its alias or its lower-cased name
RequestedColumns(targets) ==
    IF \E i \in 1..Len(targets) : targets[i].type = "Star" THEN get_columns
    ELSE [i \in 1..Len(targets) |->
            IF targets[i].alias # None THEN targets[i].alias[1]
            ELSE Lower(targets[i].name)]

\* C17: the columns of the frame a select returns are the requested ones in
\* the requested order, aliased targets under their alias, whether or not the
\* fetch returned rows and whatever the letter case of the identifiers
C17_RequestedColumnsInOrder ==
    (pc = "done" /\ query.kind = "select" /\ outcome.kind = "returned") =>
        outcome.columns = RequestedColumns(query.targets)

----------------------------------------------------------------------------
(* Properties of the connection *)

\* C18: check_connection never raises; when it reports failure the response
\* carries an error message and is_connected is false afterwards
C18_CheckConnectionNeverRaises ==
    (pc = "done" /\ query.kind = "check_connection") =>
        /\ outcome.kind = "returned"
        /\ ~outcome.response.success =>
              /\ outcome.response.error_message # None
              /\ ~is_connected

\* C20: a connected handler holds a service; no step replaces the service of
\* a connected handler; a service is replaced only by a freshly built
\* connection; a handler that is not connected (as after a check_connection
\* that reported failure) becomes connected only through a fresh connection,
\* never by reusing the old one; and connect returns the service held
C20_ConnectionState ==
    /\ [](is_connected => service # 0)
    /\ []((pc = "done" /\ query.kind = "check_connection" /\ outcome.kind = "returned"
            /\ ~outcome.response.success) => ~is_connected)
    /\ [][/\ (is_connected /\ service # 0) => service' = service
          /\ service' # service => service' = service + 1
          /\ (~is_connected /\ is_connected') => service' = service + 1
          /\ (pc' = "done" /\ query' = [kind |-> "connect"] /\ outcome'.kind = "returned")
                => (outcome'.service = service' /\ is_connected')]_vars

\* a check_connection reported failure on a connected handler, and a later
\* connect built the second connection
C20_Witness ==
    /\ pc = "done"
    /\ query.kind = "connect"
    /\ outcome.kind = "returned"
    /\ service = 2
    /\ is_connected

----------------------------------------------------------------------------
(* Properties of the rows of a list fetch *)

\* C19: every row a list fetch returns was made from a message reference of
\* the 'messages' list of one of its pages; a fetch whose pages hold no
\* reference returns no row
C19_RowsFromReferences ==
    ListFetchReturns =>
        \A i \in 1..Len(data) :
            /\ "id" \in DOMAIN data[i]
            /\ \E page \in 1..Len(resps) :
                  /\ "messages" \in DOMAIN resps[page]
                  /\ \E j \in 1..Len(resps[page]["messages"]) :
                        data[i]["id"] = resps[page]["messages"][j]["id"]

====
